---- MODULE Spec2Model ----
(***************************************************************************)
(* Model of volume::GradientVolume (src/src/volume/gradient_volume.cpp).   *)
(*                                                                         *)
(* Number representation.  Query coordinates are multiples of 1/Res and    *)
(* are held as their integer numerators.  Gradient components are held as  *)
(* integer numerators over DirScale == 2 * Res^3: the builder halves a     *)
(* difference of samples and each of the three blends of a trilinear query *)
(* multiplies by a factor that is a multiple of 1/Res, so every value the  *)
(* program computes from integer samples is exact in this representation.  *)
(* A magnitude field holds the SQUARE of the magnitude, in units of        *)
(* 1/DirScale^2: glm::length is the square root of the sum of squares, the *)
(* square root is strictly increasing on the non-negative reals, so "<"    *)
(* and "=" on magnitudes are "<" and "=" on their squares.                 *)
(***************************************************************************)
EXTENDS Integers, Sequences, FiniteSets, TLC

VARIABLES volume, pc, x, y, z, out, voxelReads, written,
          m_dim, m_data, m_minMagnitude, m_maxMagnitude,
          interpolationMode, query, blend

vars == <<volume, pc, x, y, z, out, voxelReads, written,
          m_dim, m_data, m_minMagnitude, m_maxMagnitude,
          interpolationMode, query, blend>>

(* ------------------------------ bounds --------------------------------- *)
MaxDim == 3
MaxCoef == 1
Res == 2
MaxComp == 1

DirScale == 2 * Res * Res * Res

(* ------------------------------ values --------------------------------- *)
ZeroVec == <<0, 0, 0>>

ZeroVoxel == [dir |-> ZeroVec, magnitude |-> 0]

Modes == {"NearestNeighbour", "Linear", "Cubic"}

NoQuery == [mode |-> "none", coord |-> ZeroVec, reads |-> {}, result |-> ZeroVoxel]

NoBlend == [stage |-> "none", g0 |-> ZeroVoxel, g1 |-> ZeroVoxel, factor |-> 0,
            result |-> ZeroVoxel]

\* What a read past the end of m_data, or a getVoxel outside the volume, may yield.
UndefinedVoxels == {ZeroVoxel, [dir |-> <<DirScale, 0, 0>>, magnitude |-> 1]}

UndefinedSamples == {0, 7}

Index(dim, px, py, pz) == px + dim[1] * (py + dim[2] * pz)

Size(dim) == dim[1] * dim[2] * dim[3]

\* glm::length, as the square of the norm (see the header comment).
length(v) == v[1] * v[1] + v[2] * v[2] + v[3] * v[3]

Floor(n) == n \div Res

Ceil(n) == -((-n) \div Res)

\* static_cast<int>(num/den): truncation toward zero.
TruncDiv(num, den) == IF num >= 0 THEN num \div den ELSE -((-num) \div den)

(* ------------------------------ the source volume ---------------------- *)
Sample(p, px, py, pz) == p.a * px + p.b * py + p.c * pz + p.k * (px * py - pz * pz)

VolumeParams == [a : 0..MaxCoef, b : 0..MaxCoef, c : 0..MaxCoef, k : {0, 1}]

\* The volumes the query engine is exercised on: a constant one and the steepest
\* non-linear one of the family.
QueryVolumeParams == {p \in VolumeParams : p.a = p.b /\ p.b = p.c /\ p.a = p.k * MaxCoef}

DimSet == (1..MaxDim) \X (1..MaxDim) \X (1..MaxDim)

MakeVolume(d, p) ==
    [dims |-> d,
     data |-> [i \in 0..(Size(d) - 1) |->
                 Sample(p, i % d[1], (i \div d[1]) % d[2], i \div (d[1] * d[2]))]]

getVoxel(px, py, pz, junk) ==
    LET i == Index(volume.dims, px, py, pz)
        inside == /\ 0 <= px /\ px < volume.dims[1]
                  /\ 0 <= py /\ py < volume.dims[2]
                  /\ 0 <= pz /\ pz < volume.dims[3]
    IN IF inside THEN volume.data[i] ELSE junk

(* ------------------------------ extrema -------------------------------- *)
RECURSIVE MaxElementFrom(_, _, _)
MaxElementFrom(data, i, best) ==
    IF i >= Size(m_dim) THEN best
    ELSE MaxElementFrom(data, i + 1,
                        IF data[best].magnitude < data[i].magnitude THEN i ELSE best)

RECURSIVE MinElementFrom(_, _, _)
MinElementFrom(data, i, best) ==
    IF i >= Size(m_dim) THEN best
    ELSE MinElementFrom(data, i + 1,
                        IF data[i].magnitude < data[best].magnitude THEN i ELSE best)

\* std::max_element with the comparison turned around.
computeMaxMagnitude_flipped(data) == data[MinElementFrom(data, 1, 0)].magnitude

computeMaxMagnitude(data) == data[MaxElementFrom(data, 1, 0)].magnitude

\* std::min_element with the comparison turned around.
computeMinMagnitude_flipped(data) == data[MaxElementFrom(data, 1, 0)].magnitude

computeMinMagnitude(data) == data[MinElementFrom(data, 1, 0)].magnitude

(* ------------------------------ the builder ---------------------------- *)
ForStart == 1

\* The z loop running up to the last slice.
ForZCond_noMargin == z < m_dim[3]

ForZCond == z < m_dim[3] - 1

ForYCond == y < m_dim[2] - 1

\* The x loop running up to the last column.
ForXCond_noMargin == x < m_dim[1]

ForXCond == x < m_dim[1] - 1

\* The difference of the neighbours without the division by 2.
CentralDifference_noHalf(hi, lo) == (hi - lo) * DirScale

CentralDifference(hi, lo) == ((hi - lo) * DirScale) \div 2

WriteIndex(dim, px, py, pz) == px + dim[1] * (py + dim[2] * pz)

InitFrom(params) ==
    /\ \E d \in DimSet, p \in params : volume = MakeVolume(d, p)
    /\ m_dim = volume.dims
    /\ out = [i \in 0..(Size(volume.dims) - 1) |-> ZeroVoxel]
    /\ pc = "for_z"
    /\ z = ForStart
    /\ y = ForStart
    /\ x = ForStart
    /\ voxelReads = {}
    /\ written = <<>>
    /\ m_data = <<>>
    /\ m_minMagnitude = 0
    /\ m_maxMagnitude = 0
    /\ interpolationMode \in Modes
    /\ query = NoQuery
    /\ blend = NoBlend

Init == InitFrom(QueryVolumeParams)

InitBuild == InitFrom(VolumeParams)

ForZ ==
    /\ pc = "for_z"
    /\ IF ForZCond
       THEN /\ y' = ForStart
            /\ pc' = "for_y"
       ELSE /\ y' = y
            /\ pc' = "return"
    /\ UNCHANGED <<volume, x, z, out, voxelReads, written, m_dim, m_data,
                   m_minMagnitude, m_maxMagnitude, interpolationMode, query, blend>>

ForY ==
    /\ pc = "for_y"
    /\ IF ForYCond
       THEN /\ x' = ForStart
            /\ z' = z
            /\ pc' = "for_x"
       ELSE /\ z' = z + 1
            /\ x' = x
            /\ pc' = "for_z"
    /\ UNCHANGED <<volume, y, out, voxelReads, written, m_dim, m_data,
                   m_minMagnitude, m_maxMagnitude, interpolationMode, query, blend>>

ForX ==
    /\ pc = "for_x"
    /\ IF ForXCond
       THEN /\ y' = y
            /\ pc' = "body"
       ELSE /\ y' = y + 1
            /\ pc' = "for_y"
    /\ UNCHANGED <<volume, x, z, out, voxelReads, written, m_dim, m_data,
                   m_minMagnitude, m_maxMagnitude, interpolationMode, query, blend>>

Body ==
    /\ pc = "body"
    /\ \E junk \in UndefinedSamples :
         LET gx == CentralDifference(getVoxel(x + 1, y, z, junk), getVoxel(x - 1, y, z, junk))
             gy == CentralDifference(getVoxel(x, y + 1, z, junk), getVoxel(x, y - 1, z, junk))
             gz == CentralDifference(getVoxel(x, y, z + 1, junk), getVoxel(x, y, z - 1, junk))
             v == <<gx, gy, gz>>
             index == WriteIndex(m_dim, x, y, z)
         IN /\ out' = IF index \in DOMAIN out
                      THEN [out EXCEPT ![index] = [dir |-> v, magnitude |-> length(v)]]
                      ELSE out
            /\ written' = Append(written, index)
    /\ voxelReads' = voxelReads \cup
                       {<<x + 1, y, z>>, <<x - 1, y, z>>, <<x, y + 1, z>>,
                        <<x, y - 1, z>>, <<x, y, z + 1>>, <<x, y, z - 1>>}
    /\ x' = x + 1
    /\ pc' = "for_x"
    /\ UNCHANGED <<volume, y, z, m_dim, m_data, m_minMagnitude, m_maxMagnitude,
                   interpolationMode, query, blend>>

Construct ==
    /\ pc = "return"
    /\ m_data' = out
    /\ m_minMagnitude' = computeMinMagnitude(out)
    /\ m_maxMagnitude' = computeMaxMagnitude(out)
    /\ pc' = "ready"
    /\ UNCHANGED <<volume, x, y, z, out, voxelReads, written, m_dim,
                   interpolationMode, query, blend>>

(* ------------------------------ the query engine ----------------------- *)
getGradient(px, py, pz, junk) ==
    LET i == Index(m_dim, px, py, pz)
    IN IF i \in DOMAIN m_data THEN m_data[i] ELSE junk

\* The blend without its "+ g0.dir" term.
linearInterpolate_noBase(g0, g1, factor) ==
    LET result == <<((g1.dir[1] - g0.dir[1]) * factor) \div Res,
                    ((g1.dir[2] - g0.dir[2]) * factor) \div Res,
                    ((g1.dir[3] - g0.dir[3]) * factor) \div Res>>
    IN [dir |-> result, magnitude |-> length(result)]

\* factor is the numerator of a multiple of 1/Res.
linearInterpolate(g0, g1, factor) ==
    LET result == <<((g1.dir[1] - g0.dir[1]) * factor) \div Res + g0.dir[1],
                    ((g1.dir[2] - g0.dir[2]) * factor) \div Res + g0.dir[2],
                    ((g1.dir[3] - g0.dir[3]) * factor) \div Res + g0.dir[3]>>
    IN [dir |-> result, magnitude |-> length(result)]

biLinearInterpolation(xyCoord, pz, junk) ==
    LET bottomLeftCoord == <<Floor(xyCoord[1]), Floor(xyCoord[2])>>
        topLeftCoord == <<Floor(xyCoord[1]), Ceil(xyCoord[2])>>
        bottomRightCoord == <<Ceil(xyCoord[1]), Floor(xyCoord[2])>>
        topRightCoord == <<Ceil(xyCoord[1]), Ceil(xyCoord[2])>>
        a == xyCoord[1] - Res * bottomLeftCoord[1]
        b == xyCoord[2] - Res * bottomLeftCoord[2]
        c00 == linearInterpolate(getGradient(bottomLeftCoord[1], bottomLeftCoord[2], pz, junk),
                                 getGradient(bottomRightCoord[1], bottomRightCoord[2], pz, junk), a)
        c10 == linearInterpolate(getGradient(topLeftCoord[1], topLeftCoord[2], pz, junk),
                                 getGradient(topRightCoord[1], topRightCoord[2], pz, junk), a)
    IN linearInterpolate(c00, c10, b)

\* The getGradient calls of one biLinearInterpolation call.
biLinearReads(xyCoord, pz) ==
    {<<Floor(xyCoord[1]), Floor(xyCoord[2]), pz>>, <<Ceil(xyCoord[1]), Floor(xyCoord[2]), pz>>,
     <<Floor(xyCoord[1]), Ceil(xyCoord[2]), pz>>, <<Ceil(xyCoord[1]), Ceil(xyCoord[2]), pz>>}

\* glm::any(lessThan(coord, 0)) || glm::any(greaterThanEqual(coord, m_dim))
NearestOutside(coord) ==
    \/ \E i \in 1..3 : coord[i] < 0
    \/ \E i \in 1..3 : coord[i] >= Res * m_dim[i]

\* The trilinear check written like the nearest-neighbour one, without the margin.
LinearOutside_noMargin(coord) ==
    \/ \E i \in 1..3 : coord[i] < 0
    \/ \E i \in 1..3 : coord[i] >= Res * m_dim[i]

\* glm::any(lessThan(coord - 1, 0)) || glm::any(greaterThanEqual(coord + 1, m_dim))
LinearOutside(coord) ==
    \/ \E i \in 1..3 : coord[i] - Res < 0
    \/ \E i \in 1..3 : coord[i] + Res >= Res * m_dim[i]

\* static_cast<int>(f + 0.5f)
roundToPositiveInt(f) == TruncDiv(2 * f + Res, 2 * Res)

getGradientNearestNeighbor(coord, junk) ==
    IF NearestOutside(coord)
    THEN [reads |-> {}, result |-> ZeroVoxel]
    ELSE [reads |-> {<<roundToPositiveInt(coord[1]), roundToPositiveInt(coord[2]),
                       roundToPositiveInt(coord[3])>>},
          result |-> getGradient(roundToPositiveInt(coord[1]), roundToPositiveInt(coord[2]),
                                 roundToPositiveInt(coord[3]), junk)]

getGradientLinearInterpolate(coord, junk) ==
    IF LinearOutside(coord)
    THEN [reads |-> {}, result |-> ZeroVoxel]
    ELSE LET b0 == biLinearInterpolation(<<coord[1], coord[2]>>, Floor(coord[3]), junk)
             b1 == biLinearInterpolation(<<coord[1], coord[2]>>, Ceil(coord[3]), junk)
             f == coord[3] - Res * Floor(coord[3])
         IN [reads |-> biLinearReads(<<coord[1], coord[2]>>, Floor(coord[3]))
                         \cup biLinearReads(<<coord[1], coord[2]>>, Ceil(coord[3])),
             result |-> linearInterpolate(b0, b1, f)]

CoordSet == ((-1)..(Res * m_dim[1])) \X ((-1)..(Res * m_dim[2])) \X ((-1)..(Res * m_dim[3]))

\* The switch of getGradientInterpolate: Cubic falls back to Linear.
Dispatch(mode, coord, junk) ==
    IF mode = "NearestNeighbour"
    THEN getGradientNearestNeighbor(coord, junk)
    ELSE getGradientLinearInterpolate(coord, junk)

getGradientInterpolate(coord) ==
    /\ pc = "ready"
    /\ \E junk \in UndefinedVoxels :
         LET r == Dispatch(interpolationMode, coord, junk)
         IN query' = [mode |-> interpolationMode, coord |-> coord,
                      reads |-> r.reads, result |-> r.result]
    /\ pc' = "answered"
    /\ UNCHANGED <<volume, x, y, z, out, voxelReads, written, m_dim, m_data,
                   m_minMagnitude, m_maxMagnitude, interpolationMode, blend>>

Query == \E coord \in CoordSet : getGradientInterpolate(coord)

\* The caller consumes the returned GradientVoxel.
QueryReturn ==
    /\ pc = "answered"
    /\ query' = NoQuery
    /\ pc' = "ready"
    /\ UNCHANGED <<volume, x, y, z, out, voxelReads, written, m_dim, m_data,
                   m_minMagnitude, m_maxMagnitude, interpolationMode, blend>>

\* interpolationMode is a public field: the owner assigns it between queries.
SetInterpolationMode ==
    /\ pc = "ready"
    /\ \E m \in Modes \ {interpolationMode} : interpolationMode' = m
    /\ UNCHANGED <<volume, pc, x, y, z, out, voxelReads, written, m_dim, m_data,
                   m_minMagnitude, m_maxMagnitude, query, blend>>

Next == ForZ \/ ForY \/ ForX \/ Body \/ Construct \/ Query \/ QueryReturn \/ SetInterpolationMode

Spec == Init /\ [][Next]_vars

NextBuild == ForZ \/ ForY \/ ForX \/ Body \/ Construct

SpecBuild == InitBuild /\ [][NextBuild]_vars

(* ------------------------------ linearInterpolate on its own ----------- *)
BlendDirs == {<<DirScale * a, DirScale * b, DirScale * c>> :
                a \in (-MaxComp)..MaxComp, b \in (-MaxComp)..MaxComp, c \in (-MaxComp)..MaxComp}

\* Any direction with any magnitude field: the norm of the direction or another value.
BlendVoxels == UNION {{[dir |-> d, magnitude |-> m] : m \in {length(d), 0, DirScale * DirScale}} :
                        d \in BlendDirs}

InitBlend ==
    /\ volume = MakeVolume(<<1, 1, 1>>, [a |-> 0, b |-> 0, c |-> 0, k |-> 0])
    /\ m_dim = volume.dims
    /\ out = [i \in 0..0 |-> ZeroVoxel]
    /\ pc = "blend"
    /\ z = ForStart
    /\ y = ForStart
    /\ x = ForStart
    /\ voxelReads = {}
    /\ written = <<>>
    /\ m_data = out
    /\ m_minMagnitude = 0
    /\ m_maxMagnitude = 0
    /\ interpolationMode = "NearestNeighbour"
    /\ query = NoQuery
    /\ \E g0 \in BlendVoxels, g1 \in BlendVoxels, factor \in 0..Res :
         blend = [stage |-> "call", g0 |-> g0, g1 |-> g1, factor |-> factor,
                  result |-> ZeroVoxel]

LinearInterpolateCall ==
    /\ pc = "blend"
    /\ blend.stage = "call"
    /\ blend' = [blend EXCEPT !.stage = "done",
                              !.result = linearInterpolate(blend.g0, blend.g1, blend.factor)]
    /\ UNCHANGED <<volume, pc, x, y, z, out, voxelReads, written, m_dim, m_data,
                   m_minMagnitude, m_maxMagnitude, interpolationMode, query>>

NextBlend == LinearInterpolateCall

SpecBlend == InitBlend /\ [][NextBlend]_vars

(***************************************************************************)
(* Properties.                                                             *)
(***************************************************************************)
Constructed == pc \in {"ready", "answered"}

InBounds(r) == \A i \in 1..3 : 0 <= r[i] /\ r[i] < m_dim[i]

AllCoords == (0..(m_dim[1] - 1)) \X (0..(m_dim[2] - 1)) \X (0..(m_dim[3] - 1))

InteriorCoords == (1..(m_dim[1] - 2)) \X (1..(m_dim[2] - 2)) \X (1..(m_dim[3] - 2))

InteriorIndices == {Index(m_dim, c[1], c[2], c[3]) : c \in InteriorCoords}

BoundaryIndices == {Index(m_dim, c[1], c[2], c[3]) : c \in AllCoords \ InteriorCoords}

IsInt(n) == n % Res = 0

Frac(n) == n - Res * (n \div Res)

\* floor(c + 0.5) of the coordinate with numerator n.
FloorHalfUp(n) == (2 * n + Res) \div (2 * Res)

InMargin(c) == \A i \in 1..3 : c[i] - Res >= 0 /\ c[i] + Res < Res * m_dim[i]

Stored(px, py, pz) ==
    IF InBounds(<<px, py, pz>>) /\ Index(m_dim, px, py, pz) \in DOMAIN m_data
    THEN m_data[Index(m_dim, px, py, pz)]
    ELSE ZeroVoxel

SampleAt(px, py, pz) == volume.data[Index(volume.dims, px, py, pz)]

\* C1: a nearest-neighbour query either lies outside the volume, reads nothing and
\* returns the zero gradient, or reads exactly the voxel (floor(c.x+0.5),
\* floor(c.y+0.5), floor(c.z+0.5)), each of whose coordinates lies in [0, dimension)
\* and whose array index lies in [0, dimx*dimy*dimz).
NearestNeighbourBoundsEnforced ==
    (pc = "answered" /\ query.mode = "NearestNeighbour") =>
        IF \E i \in 1..3 : query.coord[i] < 0 \/ query.coord[i] >= Res * m_dim[i]
        THEN query.reads = {} /\ query.result = ZeroVoxel
        ELSE /\ query.reads = {<<FloorHalfUp(query.coord[1]), FloorHalfUp(query.coord[2]),
                                 FloorHalfUp(query.coord[3])>>}
             /\ \A r \in query.reads :
                  /\ InBounds(r)
                  /\ Index(m_dim, r[1], r[2], r[3]) \in 0..(Size(m_dim) - 1)

EightCorners(c) ==
    {<<cx, cy, cz>> : cx \in {c[1] \div Res, -((-c[1]) \div Res)},
                      cy \in {c[2] \div Res, -((-c[2]) \div Res)},
                      cz \in {c[3] \div Res, -((-c[3]) \div Res)}}

\* C2: a trilinear query (mode Linear, or Cubic which falls back to it) whose
\* coordinate passes the margin check reads exactly the eight floor/ceil corners and
\* each of them is inside the volume; any other coordinate reads no voxel and
\* returns the zero gradient.
TrilinearReadsInBounds ==
    (pc = "answered" /\ query.mode \in {"Linear", "Cubic"}) =>
        IF InMargin(query.coord)
        THEN /\ query.reads = EightCorners(query.coord)
             /\ \A r \in query.reads :
                  /\ InBounds(r)
                  /\ Index(m_dim, r[1], r[2], r[3]) \in 0..(Size(m_dim) - 1)
        ELSE query.reads = {} /\ query.result = ZeroVoxel

TrilinearReadsInBoundsWitness ==
    /\ pc = "answered"
    /\ query.mode = "Linear"
    /\ InMargin(query.coord)
    /\ Cardinality(query.reads) = 8
    /\ query.result # ZeroVoxel

\* C3: linearInterpolate(g0, g1, 0) is g0 and linearInterpolate(g0, g1, 1) is g1,
\* direction and magnitude field alike, for any g0 and g1.
LinearBlendIdentityLaws ==
    blend.stage = "done" =>
        /\ blend.factor = 0 => blend.result = blend.g0
        /\ blend.factor = Res => blend.result = blend.g1

AlongX(c, py, pz) ==
    IF IsInt(c[1])
    THEN Stored(c[1] \div Res, py, pz)
    ELSE linearInterpolate(Stored(Floor(c[1]), py, pz), Stored(Ceil(c[1]), py, pz), Frac(c[1]))

AlongY(c, pz) ==
    IF IsInt(c[2])
    THEN AlongX(c, c[2] \div Res, pz)
    ELSE linearInterpolate(AlongX(c, Floor(c[2]), pz), AlongX(c, Ceil(c[2]), pz), Frac(c[2]))

AlongZ(c) ==
    IF IsInt(c[3])
    THEN AlongY(c, c[3] \div Res)
    ELSE linearInterpolate(AlongY(c, Floor(c[3])), AlongY(c, Ceil(c[3])), Frac(c[3]))

\* C4: a Linear query at an integer coordinate inside the margin returns the stored
\* voxel of that coordinate, direction and magnitude; when only some components are
\* integers, the result is the blend over the other axes alone, the integer axes
\* contributing their single corner unchanged.
LatticePassThrough ==
    (pc = "answered" /\ query.mode = "Linear" /\ InMargin(query.coord)) =>
        /\ query.result = AlongZ(query.coord)
        /\ (\A i \in 1..3 : IsInt(query.coord[i])) =>
              query.result = Stored(query.coord[1] \div Res, query.coord[2] \div Res,
                                    query.coord[3] \div Res)

LatticePassThroughWitness ==
    /\ pc = "answered"
    /\ query.mode = "Linear"
    /\ InMargin(query.coord)
    /\ \A i \in 1..3 : IsInt(query.coord[i])
    /\ query.result.magnitude > 0

\* C5: once constructed, and through every later query and mode change, every
\* stored magnitude lies between minMagnitude() and maxMagnitude(), and both
\* extrema are the magnitude of some stored voxel.
ExtremaBoundEveryMagnitude ==
    Constructed =>
        /\ \A i \in DOMAIN m_data :
             m_minMagnitude <= m_data[i].magnitude /\ m_data[i].magnitude <= m_maxMagnitude
        /\ \E i \in DOMAIN m_data : m_data[i].magnitude = m_minMagnitude
        /\ \E i \in DOMAIN m_data : m_data[i].magnitude = m_maxMagnitude

ExtremaBoundEveryMagnitudeWitness ==
    /\ pc = "answered"
    /\ query.mode = "Cubic"
    /\ query.result.magnitude > 0
    /\ m_maxMagnitude > m_minMagnitude

ExpectedDir(c) ==
    <<((SampleAt(c[1] + 1, c[2], c[3]) - SampleAt(c[1] - 1, c[2], c[3])) * DirScale) \div 2,
      ((SampleAt(c[1], c[2] + 1, c[3]) - SampleAt(c[1], c[2] - 1, c[3])) * DirScale) \div 2,
      ((SampleAt(c[1], c[2], c[3] + 1) - SampleAt(c[1], c[2], c[3] - 1)) * DirScale) \div 2>>

IsRampX == \A c \in AllCoords : SampleAt(c[1], c[2], c[3]) = c[1]

IsConstant == \A c \in AllCoords : SampleAt(c[1], c[2], c[3]) = SampleAt(0, 0, 0)

\* C6: after construction every interior voxel holds the central differences of the
\* source samples as its direction and the norm of that direction as its magnitude;
\* for sample(x,y,z) = x that is (1,0,0) with magnitude 1, for a constant volume zero.
InteriorGradientsAreCentralDifferences ==
    pc = "ready" =>
        \A c \in InteriorCoords :
            LET g == m_data[Index(m_dim, c[1], c[2], c[3])]
            IN /\ g.dir = ExpectedDir(c)
               /\ g.magnitude = ExpectedDir(c)[1] * ExpectedDir(c)[1]
                                  + ExpectedDir(c)[2] * ExpectedDir(c)[2]
                                  + ExpectedDir(c)[3] * ExpectedDir(c)[3]
               /\ IsRampX => g = [dir |-> <<DirScale, 0, 0>>, magnitude |-> DirScale * DirScale]
               /\ IsConstant => g = ZeroVoxel

InteriorGradientsWitness ==
    /\ pc = "ready"
    /\ InteriorCoords # {}
    /\ IsRampX
    /\ \A c \in InteriorCoords : m_data[Index(m_dim, c[1], c[2], c[3])].dir = <<DirScale, 0, 0>>

\* C7: every voxel with a coordinate 0 or dimension-1 on some axis keeps the default
\* zero value during and after construction, no write of the builder goes to the
\* index of such a voxel, and with a dimension <= 2 the whole array is zero.
BoundaryVoxelsKeepDefault ==
    /\ \A i \in BoundaryIndices : out[i] = ZeroVoxel
    /\ \A k \in 1..Len(written) : written[k] \notin BoundaryIndices
    /\ pc = "ready" =>
         /\ \A i \in BoundaryIndices : m_data[i] = ZeroVoxel
         /\ (\E a \in 1..3 : m_dim[a] <= 2) => \A i \in DOMAIN m_data : m_data[i] = ZeroVoxel

BoundaryVoxelsWitness ==
    /\ pc = "ready"
    /\ InteriorCoords # {}
    /\ \A i \in InteriorIndices : m_data[i].magnitude > 0
    /\ \E c \in AllCoords \ InteriorCoords : SampleAt(c[1], c[2], c[3]) > 0

InteriorCount ==
    (IF m_dim[1] > 2 THEN m_dim[1] - 2 ELSE 0)
      * (IF m_dim[2] > 2 THEN m_dim[2] - 2 ELSE 0)
      * (IF m_dim[3] > 2 THEN m_dim[3] - 2 ELSE 0)

FieldNeverChanges ==
    /\ Constructed =>
         /\ m_dim' = m_dim
         /\ m_data' = m_data
         /\ m_minMagnitude' = m_minMagnitude
         /\ m_maxMagnitude' = m_maxMagnitude
    /\ (pc = "ready" /\ pc' = "answered") => interpolationMode' = interpolationMode
    /\ interpolationMode' # interpolationMode => query' = query

QueriesLeaveFieldUnchanged == [][FieldNeverChanges]_vars

\* C8: mode changes and queries leave dims(), the extrema and every getGradient
\* unchanged, a query changes neither field nor mode, and the answer of
\* getGradientInterpolate(c) is fixed by c, the voxel array and the mode.
QueriesReadOnlyAndDetermined ==
    [][/\ FieldNeverChanges
       /\ pc = "answered" =>
            \A junk \in UndefinedVoxels :
                Dispatch(query.mode, query.coord, junk).result = query.result]_vars
====
